---- MODULE Spec2Model ----
(***************************************************************************)
(* Model of src/demos/plotly_extras_0_2.py (the definitions in force after *)
(* the module is loaded, i.e. the later of each duplicated definition).    *)
(*                                                                         *)
(* One call of a chart builder is modelled statement group by statement    *)
(* group; fn names the builder called and pc the group about to run.       *)
(* waffle() keeps one variable per local; the other builders keep theirs   *)
(* in the record frame, and the arguments waffle() does not have in the    *)
(* record arg_more.  Python values are encoded as follows:                 *)
(*   Optional[T]    None is <<>>, a supplied value x is <<x>>              *)
(*   dict           a sequence of [key, value] records with distinct keys, *)
(*                  in insertion order                                     *)
(*   DataFrame      [columns |-> names, cols |-> name :> column values]    *)
(*   float          an exact fraction <<numerator, denominator>> with a    *)
(*                  positive denominator (rounding is not modelled)        *)
(*   colour         an <<r, g, b>> triple of 0..255 (the '#rrggbb' text is *)
(*                  a one-to-one rendering of the triple)                  *)
(*   np.nan         the cell value nan, distinct from every category index *)
(*   exception      [type, line]: the exception class and the source line  *)
(*                  of the statement that raised it                        *)
(***************************************************************************)
EXTENDS Integers, Sequences, FiniteSets, TLC

\* ------------------------------------------------------------- bounds
MaxCats == 3
MaxCount == 2
MaxWidth == 3
MaxRows == 2

\* ------------------------------------------------------------- encodings
None == <<>>
Some(x) == <<x>>

\* Python truthiness of an Optional[str] / Optional[int] argument.
TruthyStr(o) == o # None /\ o[1] # ""
TruthyInt(o) == o # None /\ o[1] # 0

nan == -1

\* column is the column a "Column '...' not found in DataFrame." message names.
NoError == [type |-> "none", line |-> 0, column |-> ""]
Raise(t, l) == [type |-> t, line |-> l, column |-> ""]
\* Mutant: the message does not say which column.
RaiseColumnUnnamed(l, name) == [type |-> "ValueError", line |-> l, column |-> ""]

RaiseColumn(l, name) == [type |-> "ValueError", line |-> l, column |-> name]

\* Python truthiness of an Optional[List] argument: None and [] are falsy.
TruthyList(o) == o # None /\ o[1] # <<>>

\* ------------------------------------------------------------- arithmetic
\* math.ceil(a / b) for integers a, b with b # 0 (true division, then ceil).
CeilDiv(a, b) ==
  IF b > 0 THEN -((-a) \div b) ELSE -(a \div (-b))

\* math.ceil(math.sqrt(t)) for an integer t >= 0.
\* Mutant: int(math.sqrt(t)), the root rounded down.
FloorSqrt(t) == CHOOSE w \in 0..t : w * w <= t /\ (w + 1) * (w + 1) > t

CeilSqrt(t) == CHOOSE w \in 0..t : w * w >= t /\ (w = 0 \/ (w - 1) * (w - 1) < t)

\* Fractions <<n, d>>, d > 0.
RatLe(p, q) == p[1] * q[2] <= q[1] * p[2]
RatLt(p, q) == p[1] * q[2] < q[1] * p[2]
RatEq(p, q) == p[1] * q[2] = q[1] * p[2]

RECURSIVE SumSeq(_)
SumSeq(s) == IF s = <<>> THEN 0 ELSE s[1] + SumSeq(Tail(s))

\* [x] * n
Repeat(x, n) == [k \in 1..(IF n > 0 THEN n ELSE 0) |-> x]

\* ------------------------------------------------------------- dict
Keys(d) == [k \in 1..Len(d) |-> d[k].key]
Values(d) == [k \in 1..Len(d) |-> d[k].value]

HasKey(d, key) == \E k \in 1..Len(d) : d[k].key = key

\* d[key] = value: an existing key keeps its position, a new key is appended.
\* Mutant: an existing key keeps its value too (dict.setdefault).
DictSetKeepFirst(d, key, value) ==
  IF HasKey(d, key) THEN d ELSE Append(d, [key |-> key, value |-> value])

DictSet(d, key, value) ==
  IF HasKey(d, key)
  THEN [k \in 1..Len(d) |-> IF d[k].key = key THEN [key |-> key, value |-> value] ELSE d[k]]
  ELSE Append(d, [key |-> key, value |-> value])

\* dict(zip(ks, vs))
RECURSIVE DictZipFrom(_, _, _, _)
DictZipFrom(d, ks, vs, k) ==
  IF k > Len(ks) \/ k > Len(vs) THEN d
  ELSE DictZipFrom(DictSet(d, ks[k], vs[k]), ks, vs, k + 1)

DictZip(ks, vs) == DictZipFrom(<<>>, ks, vs, 1)

\* ------------------------------------------------------------- helpers of the module
lightblue == <<173, 216, 230>>
darkblue == <<0, 0, 139>>
startcolor == lightblue
endcolor == darkblue

\* t = i / (num_colors - 1) divides by zero exactly when the list of t is
\* non-empty and num_colors = 1.
GradientRaises(num_colors) == num_colors = 1

\* int((start + (end - start) * i / (num_colors - 1)) * 255) per channel, for
\* i = 0 .. num_colors - 1 (element k of the result is i = k - 1).
\* Channels are kept on the 0..255 scale and the truncation is exact; the
\* binary64 computation gives the same integers for num_colors <= 6.
GradientChannel(s, e, i, num_colors) ==
  (s * (num_colors - 1) + (e - s) * i) \div (num_colors - 1)

get_color_gradient(start_color, end_color, num_colors) ==
  [k \in 1..num_colors |->
     [ch \in 1..3 |-> GradientChannel(start_color[ch], end_color[ch], k - 1, num_colors)]]

\* section_length = x / y; [(i * section_length, (i + 1) * section_length) for i in range(y)]
\* (element k of the result is i = k - 1).  Called only with y # 0.
\* Mutant: a section starts half a section length late.
SectionStartLate(x, y, i) == <<(2 * i + 1) * x, 2 * y>>

SectionStart(x, y, i) == <<i * x, y>>

\* Mutant: the end of a section overshoots by one section length.
SectionEndTooFar(x, y, i) == <<(i + 2) * x, y>>

SectionEnd(x, y, i) == <<(i + 1) * x, y>>

get_section_bounds(x, y) ==
  [k \in 1..y |-> <<SectionStart(x, y, k - 1), SectionEnd(x, y, k - 1)>>]

\* [((2 * i - 1) * x) / (2 * y) for i in range(1, y + 1)]
\* Mutant: 2 * i + 1, the midpoints of the sections one further along.
MidpointOfNext(x, y, i) == <<(2 * i + 1) * x, 2 * y>>

Midpoint(x, y, i) == <<(2 * i - 1) * x, 2 * y>>

find_midpoints(x, y) == [i \in 1..y |-> Midpoint(x, y, i)]

\* ------------------------------------------------------------- numpy
\* np.array(cat).reshape((-1, width)): a negative width is a second unknown
\* dimension, and a length that width does not divide cannot be reshaped.
ReshapeRaises(flat, w) ==
  \/ w <= 0
  \/ w > 0 /\ Len(flat) % w # 0

\* Row-major: row r, column c (both from 1) is element (r - 1) * w + c.
ReshapeCell(flat, w, r, c) == flat[(r - 1) * w + c]

reshape(flat, w) ==
  [r \in 1..(Len(flat) \div w) |-> [c \in 1..w |-> ReshapeCell(flat, w, r, c)]]

\* np.fliplr: every row reversed.
\* Mutant: the row is left as it is.
FlipRowOmitted(row) == [c \in 1..Len(row) |-> row[c]]

FlipRow(row) == [c \in 1..Len(row) |-> row[Len(row) + 1 - c]]

fliplr(m) == [r \in 1..Len(m) |-> FlipRow(m[r])]

\* ------------------------------------------------------------- state
VARIABLES
  fn, arg_more,
  arg_df, arg_category_col, arg_value_col, arg_data, arg_local_colors, arg_grid_width,
  category_col, value_col, data, local_colors,
  total, number_of_values, cat, width, height, padding_length, b,
  ranges, colorscale, fig, pc, err, frame,
  other, alone, turn

\* What the caller passed: the builder called and its arguments.
args == <<fn, arg_more,
          arg_df, arg_category_col, arg_value_col, arg_data, arg_local_colors, arg_grid_width>>
vars == <<fn, arg_more,
          arg_df, arg_category_col, arg_value_col, arg_data, arg_local_colors, arg_grid_width,
          category_col, value_col, data, local_colors,
          total, number_of_values, cat, width, height, padding_length, b,
          ranges, colorscale, fig, pc, err, frame,
          other, alone, turn>>

\* Two callers: other is the call that is not running at the moment (None while there
\* is only one call), alone the result the call gave when it was made before, by itself, turn
\* the call the variables above belong to.
sched == <<other, alone, turn>>

\* ------------------------------------------------------------- inputs
LabelNames == <<"A", "B", "C", "D", "E", "F">>
Label(k) == IF k <= Len(LabelNames) THEN LabelNames[k] ELSE "Z"

\* The colours of demos/waffle_test.py, as <<r, g, b>>.
Palette == << <<128, 128, 128>>, <<18, 182, 207>>, <<253, 187, 48>>,
              <<0, 135, 220>>, <<213, 0, 0>> >>
PaletteColour(k) == IF k <= Len(Palette) THEN Palette[k] ELSE <<k, k, k>>
ColourList(len) == [k \in 1..len |-> PaletteColour(k)]

\* Category counts: n labelled categories, every count a non-negative integer.
DictOf(counts) == [k \in 1..Len(counts) |-> [key |-> Label(k), value |-> counts[k]]]
CountSeqs == UNION {[1..n -> 0..MaxCount] : n \in 0..MaxCats}
\* The two worked examples: {"A": 1, "B": 3} and {"X": 5}.
ExampleDicts == {DictOf(<<1, 3>>), <<[key |-> "X", value |-> 5]>>}
Dicts == {DictOf(c) : c \in CountSeqs} \cup ExampleDicts

\* Tables with the columns Party and Seats; a label may repeat across rows.
TableColumns == <<"Party", "Seats">>
TableOf(labels, seats) ==
  [columns |-> TableColumns, cols |-> [Party |-> labels, Seats |-> seats]]
Tables ==
  UNION {{TableOf(l, s) : l \in [1..n -> {Label(1), Label(2)}], s \in [1..n -> 0..MaxCount]}
         : n \in 0..MaxRows}

ColourArgs == {None} \cup {Some(ColourList(len)) : len \in 0..(MaxCats + 1)}
WidthArgs == {None} \cup {Some(w) : w \in (-MaxWidth)..MaxWidth}

InColumns(df, name) == \E k \in 1..Len(df.columns) : df.columns[k] = name
Column(df, name) == df.cols[name]

LocalsInit ==
  /\ category_col = "" /\ value_col = ""
  /\ data = <<>> /\ local_colors = <<>>
  /\ total = 0 /\ number_of_values = 0 /\ cat = <<>>
  /\ width = 0 /\ height = 0 /\ padding_length = 0 /\ b = <<>>
  /\ ranges = <<>> /\ colorscale = <<>> /\ fig = None
  /\ pc = "entry" /\ err = NoError /\ frame = <<>>
  /\ other = None /\ alone = None /\ turn = 1

\* A call driven by an explicit counts mapping (or by nothing at all).
InitDict ==
  /\ fn = "waffle" /\ arg_more = <<>>
  /\ arg_df = None
  /\ arg_category_col = None /\ arg_value_col = None
  /\ arg_data \in {None} \cup {Some(d) : d \in Dicts}
  /\ arg_local_colors \in ColourArgs
  /\ arg_grid_width \in WidthArgs

\* A call driven by a table.
InitTable ==
  /\ fn = "waffle" /\ arg_more = <<>>
  /\ arg_df \in {Some(t) : t \in Tables}
  /\ arg_category_col \in {None, Some("Party"), Some("Missing")}
  /\ arg_value_col \in {None, Some("Seats"), Some("Missing")}
  /\ arg_data \in {None, Some(DictOf(<<1, 1>>))}
  /\ arg_local_colors \in {None, Some(ColourList(2))}
  /\ arg_grid_width \in {None, Some(MaxWidth)}

Init == (InitDict \/ InitTable) /\ LocalsInit

\* ------------------------------------------------------------- waffle
\* lines 549-559: take the counts from the table, or from data.
ResolveInput ==
  /\ fn = "waffle" /\ pc = "entry"
  /\ IF arg_df # None
     THEN IF TruthyStr(arg_category_col) /\ ~InColumns(arg_df[1], arg_category_col[1])
          THEN /\ pc' = "raised" /\ err' = RaiseColumn(551, arg_category_col[1])
               /\ UNCHANGED <<category_col, value_col, data>>
          ELSE IF TruthyStr(arg_value_col) /\ ~InColumns(arg_df[1], arg_value_col[1])
          THEN /\ pc' = "raised" /\ err' = RaiseColumn(553, arg_value_col[1])
               /\ UNCHANGED <<category_col, value_col, data>>
          ELSE /\ category_col' = (IF TruthyStr(arg_category_col) THEN arg_category_col[1]
                                   ELSE arg_df[1].columns[1])
               /\ value_col' = (IF TruthyStr(arg_value_col) THEN arg_value_col[1]
                                ELSE arg_df[1].columns[2])
               /\ data' = DictZip(Column(arg_df[1], category_col'), Column(arg_df[1], value_col'))
               /\ pc' = "gradient" /\ UNCHANGED err
     ELSE IF arg_data = None
          THEN /\ pc' = "raised" /\ err' = Raise("ValueError", 559)
               /\ UNCHANGED <<category_col, value_col, data>>
          ELSE /\ data' = arg_data[1]
               /\ pc' = "gradient" /\ UNCHANGED <<category_col, value_col, err>>
  /\ UNCHANGED <<sched, args, frame, local_colors, total, number_of_values, cat, width, height,
                 padding_length, b, ranges, colorscale, fig>>

\* lines 561-562: default the colours to a gradient of len(data) colours.
DefaultColors ==
  /\ pc = "gradient"
  /\ IF arg_local_colors = None
     THEN IF GradientRaises(Len(data))
          THEN /\ pc' = "raised" /\ err' = Raise("ZeroDivisionError", 407)
               /\ UNCHANGED local_colors
          ELSE /\ local_colors' = get_color_gradient(startcolor, endcolor, Len(data))
               /\ pc' = "flatten" /\ UNCHANGED err
     ELSE /\ local_colors' = arg_local_colors[1]
          /\ pc' = "flatten" /\ UNCHANGED err
  /\ UNCHANGED <<sched, args, frame, category_col, value_col, data, total, number_of_values, cat,
                 width, height, padding_length, b, ranges, colorscale, fig>>

\* line 566: [idx for idx, count in enumerate(data.values()) for _ in range(count)]
\* (idx counts from 0).
RECURSIVE FlatFrom(_, _)
FlatFrom(counts, k) ==
  IF k > Len(counts) THEN <<>>
  ELSE Repeat(k - 1, counts[k]) \o FlatFrom(counts, k + 1)

\* Mutant: enumerate(..., 1), the indices start at 1.
FlatIndexFromOne(counts) ==
  [j \in 1..Len(FlatFrom(counts, 1)) |-> FlatFrom(counts, 1)[j] + 1]

Flat(counts) == FlatFrom(counts, 1)

\* lines 564-566
Flatten ==
  /\ pc = "flatten"
  /\ total' = SumSeq(Values(data))
  /\ number_of_values' = Len(Values(data))
  /\ cat' = Flat(Values(data))
  /\ pc' = "dims"
  /\ UNCHANGED <<sched, args, frame, category_col, value_col, data, local_colors, width, height,
                 padding_length, b, ranges, colorscale, fig, err>>

\* line 568: grid_width or math.ceil(math.sqrt(total))
\* Mutant: the default is one row, as wide as the total.
ChooseWidthOneRow(grid_width, t) == IF TruthyInt(grid_width) THEN grid_width[1] ELSE t

ChooseWidth(grid_width, t) == IF TruthyInt(grid_width) THEN grid_width[1] ELSE CeilSqrt(t)

\* lines 568-569
Dimensions ==
  /\ pc = "dims"
  /\ width' = ChooseWidth(arg_grid_width, total)
  /\ IF width' = 0
     THEN /\ pc' = "raised" /\ err' = Raise("ZeroDivisionError", 569)
          /\ UNCHANGED height
     ELSE /\ height' = CeilDiv(total, width')
          /\ pc' = "pad" /\ UNCHANGED err
  /\ UNCHANGED <<sched, args, frame, category_col, value_col, data, local_colors, total,
                 number_of_values, cat, padding_length, b, ranges, colorscale, fig>>

\* line 572: [np.nan] * padding_length + cat
\* Mutant: the padding is put after the tiles, cat + [np.nan] * padding_length.
PaddedAtEnd(flat, n) == flat \o Repeat(nan, n)

\* Mutant: the padding is filled with zeros (np.zeros) instead of np.nan.
PaddedWithZero(flat, n) == Repeat(0, n) \o flat

Padded(flat, n) == Repeat(nan, n) \o flat

\* lines 571-573
PadAndReshape ==
  /\ pc = "pad"
  /\ padding_length' = width * height - Len(cat)
  /\ cat' = Padded(cat, padding_length')
  /\ IF ReshapeRaises(cat', width)
     THEN /\ pc' = "raised" /\ err' = Raise("ValueError", 573)
          /\ UNCHANGED b
     ELSE /\ b' = reshape(cat', width)
          /\ pc' = "colorscale" /\ UNCHANGED err
  /\ UNCHANGED <<sched, args, frame, category_col, value_col, data, local_colors, total,
                 number_of_values, width, height, ranges, colorscale, fig>>

\* line 578/579: local_colors[i % len(local_colors)], i from 0.
\* Mutant: no cycling, the last colour serves every band past the end of the list.
BandColorClamped(colors, i) == colors[IF i + 1 <= Len(colors) THEN i + 1 ELSE Len(colors)]

BandColor(colors, i) == colors[(i % Len(colors)) + 1]

\* lines 576-579: two breakpoints per band, element 2i+1 and 2i+2 for band i.
\* Mutant: the closing breakpoint of a band already carries the next band's colour.
BuildColorscaleEndNext(rs, colors, n) ==
  [k \in 1..(2 * n) |->
     IF k % 2 = 1
     THEN <<rs[(k + 1) \div 2][1], BandColor(colors, (k - 1) \div 2)>>
     ELSE <<rs[k \div 2][2], BandColor(colors, k \div 2)>>]

BuildColorscale(rs, colors, n) ==
  [k \in 1..(2 * n) |->
     IF k % 2 = 1
     THEN <<rs[(k + 1) \div 2][1], BandColor(colors, (k - 1) \div 2)>>
     ELSE <<rs[k \div 2][2], BandColor(colors, (k - 1) \div 2)>>]

\* lines 575-579
Colorscale ==
  /\ pc = "colorscale"
  /\ IF number_of_values = 0
     THEN /\ pc' = "raised" /\ err' = Raise("ZeroDivisionError", 423)
          /\ UNCHANGED <<ranges, colorscale>>
     ELSE /\ ranges' = get_section_bounds(1, number_of_values)
          /\ IF Len(local_colors) = 0
             THEN /\ pc' = "raised" /\ err' = Raise("ZeroDivisionError", 578)
                  /\ UNCHANGED colorscale
             ELSE /\ colorscale' = BuildColorscale(ranges', local_colors, number_of_values)
                  /\ pc' = "figure" /\ UNCHANGED err
  /\ UNCHANGED <<sched, args, frame, category_col, value_col, data, local_colors, total,
                 number_of_values, cat, width, height, padding_length, b, fig>>

\* The figure with ticks find_midpoints(n, n), scaled by n instead of n - 1.
HeatmapTicksScaledByN(grid, scale, n, d) ==
  [z |-> fliplr(grid),
   tickvals |-> find_midpoints(n, n),
   ticktext |-> Keys(d),
   colorscale |-> scale]

\* lines 581-603: the figure handed back to the caller.
Heatmap(grid, scale, n, d) ==
  [z |-> fliplr(grid),
   tickvals |-> find_midpoints(n - 1, n),
   ticktext |-> Keys(d),
   colorscale |-> scale]

BuildFigure ==
  /\ pc = "figure"
  /\ fig' = Some(Heatmap(b, colorscale, number_of_values, data))
  /\ pc' = "returned"
  /\ UNCHANGED <<sched, args, frame, category_col, value_col, data, local_colors, total,
                 number_of_values, cat, width, height, padding_length, b,
                 ranges, colorscale, err>>

Next ==
  \/ ResolveInput
  \/ DefaultColors
  \/ Flatten
  \/ Dimensions
  \/ PadAndReshape
  \/ Colorscale
  \/ BuildFigure

Spec == Init /\ [][Next]_vars

\* ------------------------------------------------------------- waterfall
\* Sequences of at most MaxRows numbers, and of that many labels.
NumberLists == UNION {[1..n -> 0..MaxCount] : n \in 0..MaxRows}
LabelList(n) == [k \in 1..n |-> Label(k)]
LabelLists == {LabelList(n) : n \in 0..MaxRows}
OptionOf(S) == {None} \cup {Some(x) : x \in S}

\* The measure a caller passes: one entry per bar, as in demos/waterfall_test.py.
MeasureList(n) == [k \in 1..n |-> IF k = 1 THEN "total" ELSE "relative"]

\* waterfall(df, category_col, value_col, labels, data, ..., color, measure);
\* arg_data holds the list data, arg_more the arguments waffle() does not have.
InitWaterfall ==
  /\ fn = "waterfall"
  /\ \/ /\ arg_df = None
        /\ arg_category_col = None /\ arg_value_col = None
        /\ arg_data \in OptionOf(NumberLists)
        /\ arg_more \in [labels : OptionOf(LabelLists),
                         measure : {None} \cup {Some(MeasureList(n)) : n \in 0..MaxRows},
                         annotation : {None, Some(LabelList(MaxRows))},
                         color : {None, Some("blue")}]
     \/ /\ arg_df \in {Some(t) : t \in Tables}
        /\ arg_category_col \in {None, Some("Party"), Some("Missing")}
        /\ arg_value_col \in {None, Some("Seats"), Some("Missing")}
        /\ arg_data \in {None, Some(<<1, 1>>)}
        /\ arg_more \in [labels : {None, Some(LabelList(1))},
                         measure : {None, Some(MeasureList(MaxRows))},
                         annotation : {None},
                         color : {None}]
  /\ arg_local_colors = None /\ arg_grid_width = None
  /\ LocalsInit

\* lines 478-489: take labels and data from the table, or from the lists.
\* Mutant: with a table, lists the caller passed as well are used in place of its columns.
WfResolveInputListsFirst ==
  /\ fn = "waterfall" /\ pc = "entry"
  /\ IF arg_df # None
     THEN IF TruthyStr(arg_category_col) /\ ~InColumns(arg_df[1], arg_category_col[1])
          THEN /\ pc' = "raised" /\ err' = RaiseColumn(480, arg_category_col[1])
               /\ UNCHANGED <<category_col, value_col, data, frame>>
          ELSE IF TruthyStr(arg_value_col) /\ ~InColumns(arg_df[1], arg_value_col[1])
          THEN /\ pc' = "raised" /\ err' = RaiseColumn(482, arg_value_col[1])
               /\ UNCHANGED <<category_col, value_col, data, frame>>
          ELSE /\ category_col' = (IF TruthyStr(arg_category_col) THEN arg_category_col[1]
                                   ELSE arg_df[1].columns[1])
               /\ value_col' = (IF TruthyStr(arg_value_col) THEN arg_value_col[1]
                                ELSE arg_df[1].columns[2])
               /\ frame' = [labels |-> IF TruthyList(arg_more.labels) THEN arg_more.labels[1]
                                       ELSE Column(arg_df[1], category_col')]
               /\ data' = (IF TruthyList(arg_data) THEN arg_data[1]
                           ELSE Column(arg_df[1], value_col'))
               /\ pc' = "wf_defaults" /\ UNCHANGED err
     ELSE IF ~(TruthyList(arg_more.labels) /\ TruthyList(arg_data))
          THEN /\ pc' = "raised" /\ err' = Raise("ValueError", 489)
               /\ UNCHANGED <<category_col, value_col, data, frame>>
          ELSE /\ frame' = [labels |-> arg_more.labels[1]]
               /\ data' = arg_data[1]
               /\ pc' = "wf_defaults" /\ UNCHANGED <<category_col, value_col, err>>
  /\ UNCHANGED <<sched, args, local_colors, total, number_of_values, cat, width, height,
                 padding_length, b, ranges, colorscale, fig>>

WfResolveInput ==
  /\ fn = "waterfall" /\ pc = "entry"
  /\ IF arg_df # None
     THEN IF TruthyStr(arg_category_col) /\ ~InColumns(arg_df[1], arg_category_col[1])
          THEN /\ pc' = "raised" /\ err' = RaiseColumn(480, arg_category_col[1])
               /\ UNCHANGED <<category_col, value_col, data, frame>>
          ELSE IF TruthyStr(arg_value_col) /\ ~InColumns(arg_df[1], arg_value_col[1])
          THEN /\ pc' = "raised" /\ err' = RaiseColumn(482, arg_value_col[1])
               /\ UNCHANGED <<category_col, value_col, data, frame>>
          ELSE /\ category_col' = (IF TruthyStr(arg_category_col) THEN arg_category_col[1]
                                   ELSE arg_df[1].columns[1])
               /\ value_col' = (IF TruthyStr(arg_value_col) THEN arg_value_col[1]
                                ELSE arg_df[1].columns[2])
               /\ frame' = [labels |-> Column(arg_df[1], category_col')]
               /\ data' = Column(arg_df[1], value_col')
               /\ pc' = "wf_defaults" /\ UNCHANGED err
     ELSE IF ~(TruthyList(arg_more.labels) /\ TruthyList(arg_data))
          THEN /\ pc' = "raised" /\ err' = Raise("ValueError", 489)
               /\ UNCHANGED <<category_col, value_col, data, frame>>
          ELSE /\ frame' = [labels |-> arg_more.labels[1]]
               /\ data' = arg_data[1]
               /\ pc' = "wf_defaults" /\ UNCHANGED <<category_col, value_col, err>>
  /\ UNCHANGED <<sched, args, local_colors, total, number_of_values, cat, width, height,
                 padding_length, b, ranges, colorscale, fig>>

\* line 492: ['relative'] * (len(labels) - 1) + ['total']
\* Mutant: ['relative'] * len(labels) + ['total'], one entry too many.
DefaultMeasureTooLong(labels) == Repeat("relative", Len(labels)) \o <<"total">>

DefaultMeasure(labels) == Repeat("relative", Len(labels) - 1) \o <<"total">>

\* lines 491-492
ChooseMeasure(measure, labels) == IF measure = None THEN DefaultMeasure(labels) ELSE measure[1]

\* lines 450-453, 494-495: icolor, dcolor, tcolor, ccolor, all replaced by a truthy color.
WaterfallColors(color) ==
  IF TruthyStr(color)
  THEN [icolor |-> color[1], dcolor |-> color[1], tcolor |-> color[1], ccolor |-> color[1]]
  ELSE [icolor |-> "Green", dcolor |-> "Red", tcolor |-> "Blue", ccolor |-> "Dark Grey"]

\* lines 491-495
\* Mutant: the caller's measure list is completed in place, as measure.append('total')
\* would do, instead of being left alone.
WfDefaultsInPlace ==
  /\ fn = "waterfall" /\ pc = "wf_defaults"
  /\ frame' = [labels |-> frame.labels,
               measure |-> ChooseMeasure(arg_more.measure, frame.labels) \o <<"total">>,
               colors |-> WaterfallColors(arg_more.color)]
  /\ arg_more' = [arg_more EXCEPT !.measure = Some(frame'.measure)]
  /\ pc' = "wf_figure"
  /\ UNCHANGED <<sched, fn, arg_df, arg_category_col, arg_value_col, arg_data, arg_local_colors,
                 arg_grid_width, category_col, value_col, data, local_colors, total,
                 number_of_values, cat, width, height, padding_length, b, ranges,
                 colorscale, fig, err>>

WfDefaults ==
  /\ fn = "waterfall" /\ pc = "wf_defaults"
  /\ frame' = [labels |-> frame.labels,
               measure |-> ChooseMeasure(arg_more.measure, frame.labels),
               colors |-> WaterfallColors(arg_more.color)]
  /\ pc' = "wf_figure"
  /\ UNCHANGED <<sched, args, category_col, value_col, data, local_colors, total, number_of_values,
                 cat, width, height, padding_length, b, ranges, colorscale, fig, err>>

\* lines 497-510: the keyword arguments of go.Waterfall; text only with an annotation.
WaterfallParams(fr, y, annotation) ==
  [orientation |-> "v", measure |-> fr.measure, textposition |-> "outside",
   y |-> y, x |-> fr.labels, colors |-> fr.colors, text |-> annotation]

\* lines 497-515
WfBuildFigure ==
  /\ fn = "waterfall" /\ pc = "wf_figure"
  /\ fig' = Some(WaterfallParams(frame, data, arg_more.annotation))
  /\ pc' = "returned"
  /\ UNCHANGED <<sched, args, frame, category_col, value_col, data, local_colors, total,
                 number_of_values, cat, width, height, padding_length, b, ranges,
                 colorscale, err>>

NextWaterfall ==
  \/ WfResolveInput
  \/ WfDefaults
  \/ WfBuildFigure

SpecWaterfall == InitWaterfall /\ [][NextWaterfall]_vars

\* ------------------------------------------------------------- dumbbell, line_range
\* Sequences of at most MaxRows positive numbers.
ValueLists == UNION {[1..n -> 1..MaxCount] : n \in 0..MaxRows}

\* A table with the three columns of demos/dumbbell_test.py.
Table3Columns == <<"Product", "Before", "After">>
Table3Of(products, before, after) ==
  [columns |-> Table3Columns,
   cols |-> [Product |-> products, Before |-> before, After |-> after]]
Tables3 ==
  UNION {{Table3Of(LabelList(n), v1, v2) : v1 \in [1..n -> 1..MaxCount], v2 \in [1..n -> 1..MaxCount]}
         : n \in 0..MaxRows}

\* The tables dumbbell() is called with: three columns, or only two.
DumbbellTables == Tables3 \cup {TableOf(LabelList(n), s) : n \in 0..MaxRows, s \in ValueLists}

\* label1, label2 as a caller passes them.
LabelPairs == {<<Some(""), Some("")>>, <<Some("2022"), Some("2023")>>, <<Some("2022"), Some("")>>}

\* The arguments of dumbbell() and line_range() that waffle() does not have; value1_col
\* is held by arg_value_col.  Colours and sizes are the defaults of lines 617-621 and 816-817.
RangeArgs(value2_col, categories, values1, values2, labels, orientation) ==
  [value2_col |-> value2_col,
   categories |-> categories, values1 |-> values1, values2 |-> values2,
   label1 |-> labels[1], label2 |-> labels[2], orientation |-> orientation]

DumbbellStyle ==
  [marker_color1 |-> "blue", marker_color2 |-> "orange", line_color |-> "gray",
   marker_size |-> 10, line_width |-> 2]
LineRangeStyle == [line_color |-> "blue", line_width |-> 10]

\* r with the fields of s added.
WithFields(r, s) ==
  [f \in DOMAIN r \cup DOMAIN s |-> IF f \in DOMAIN s THEN s[f] ELSE r[f]]

\* A call driven by lists, by a table, or by a table with lists passed as well.
InitRange ==
  /\ fn \in {"dumbbell", "line_range"}
  /\ \E p \in LabelPairs, o \in {"h", "v"} :
       LET style == IF fn = "dumbbell" THEN DumbbellStyle ELSE LineRangeStyle
       IN \/ /\ arg_df = None
             /\ arg_category_col = None /\ arg_value_col = None
             /\ \E c \in OptionOf(LabelLists), v1 \in OptionOf(ValueLists),
                   v2 \in OptionOf(ValueLists) :
                  arg_more = WithFields(RangeArgs(None, c, v1, v2, p, o), style)
          \/ /\ arg_df \in {Some(t) : t \in DumbbellTables}
             /\ arg_category_col \in {None, Some("Product"), Some("Missing")}
             /\ arg_value_col \in {None, Some("Before"), Some("Missing")}
             /\ \E c2 \in {None, Some("After"), Some("Other")} :
                  arg_more = WithFields(RangeArgs(c2, None, None, None, p, o), style)
          \/ /\ arg_df \in {Some(Table3Of(LabelList(n), Repeat(1, n), Repeat(MaxCount, n)))
                              : n \in 1..MaxRows}
             /\ arg_category_col \in {None, Some("Product")}
             /\ arg_value_col \in {None, Some("Before")}
             /\ \E c2 \in {None, Some("After")},
                   c \in {None, Some(<<Label(2)>>)},
                   v1 \in {None, Some(<<MaxCount, MaxCount>>)},
                   v2 \in {None, Some(<<>>)} :
                  arg_more = WithFields(RangeArgs(c2, c, v1, v2, p, o), style)
  /\ arg_data = None /\ arg_local_colors = None /\ arg_grid_width = None
  /\ LocalsInit

\* lines 842-847: line_range() calls dumbbell() with both marker colours the line colour,
\* the marker size the line width and both labels None; call holds dumbbell's parameters.
LineRangeCall ==
  /\ fn = "line_range" /\ pc = "entry"
  /\ frame' = [call |-> WithFields(arg_more,
                  [marker_color1 |-> arg_more.line_color,
                   marker_color2 |-> arg_more.line_color,
                   marker_size |-> arg_more.line_width,
                   label1 |-> None, label2 |-> None])]
  /\ pc' = "db_entry"
  /\ UNCHANGED <<sched, args, category_col, value_col, data, local_colors, total, number_of_values,
                 cat, width, height, padding_length, b, ranges, colorscale, fig, err>>

\* The parameters dumbbell() runs with: the caller's, or those line_range() passed.
DumbbellCalled ==
  \/ fn = "dumbbell" /\ pc = "entry"
  \/ fn = "line_range" /\ pc = "db_entry"
DumbbellParams == IF fn = "line_range" THEN frame.call ELSE arg_more

\* lines 656-658: `col or df.columns[k]`, 0-based k; None when k is past the last column.
ColumnOrDefault(col, df, k) ==
  IF TruthyStr(col) THEN col
  ELSE IF k < Len(df.columns) THEN Some(df.columns[k + 1]) ELSE None

\* lines 648-663 of dumbbell(): take the three lists from the table, or from the caller.
DbResolveInput ==
  /\ DumbbellCalled
  /\ LET p == DumbbellParams
         quit(e) == /\ pc' = "raised" /\ err' = e
                    /\ UNCHANGED <<category_col, value_col, frame>>
     IN IF arg_df # None
        THEN LET df == arg_df[1]
                 c0 == ColumnOrDefault(arg_category_col, df, 0)
                 c1 == ColumnOrDefault(arg_value_col, df, 1)
                 c2 == ColumnOrDefault(p.value2_col, df, 2)
             IN IF TruthyStr(arg_category_col) /\ ~InColumns(df, arg_category_col[1])
                THEN quit(RaiseColumn(650, arg_category_col[1]))
                ELSE IF TruthyStr(arg_value_col) /\ ~InColumns(df, arg_value_col[1])
                THEN quit(RaiseColumn(652, arg_value_col[1]))
                ELSE IF TruthyStr(p.value2_col) /\ ~InColumns(df, p.value2_col[1])
                THEN quit(RaiseColumn(654, p.value2_col[1]))
                ELSE IF c0 = None THEN quit(Raise("IndexError", 656))
                ELSE IF c1 = None THEN quit(Raise("IndexError", 657))
                ELSE IF c2 = None THEN quit(Raise("IndexError", 658))
                ELSE /\ category_col' = c0[1] /\ value_col' = c1[1]
                     /\ frame' = [call |-> p, value2_col |-> c2[1],
                                  categories |-> Column(df, c0[1]),
                                  values1 |-> Column(df, c1[1]),
                                  values2 |-> Column(df, c2[1])]
                     /\ pc' = "db_lengths" /\ UNCHANGED err
        ELSE IF ~(TruthyList(p.categories) /\ TruthyList(p.values1) /\ TruthyList(p.values2))
             THEN quit(Raise("ValueError", 663))
             ELSE /\ frame' = [call |-> p, value2_col |-> "",
                               categories |-> p.categories[1],
                               values1 |-> p.values1[1],
                               values2 |-> p.values2[1]]
                  /\ pc' = "db_lengths" /\ UNCHANGED <<category_col, value_col, err>>
  /\ UNCHANGED <<sched, args, data, local_colors, total, number_of_values, cat, width, height,
                 padding_length, b, ranges, colorscale, fig>>

\* line 665: len(categories) == len(values1) == len(values2)
SameLength(c, v1, v2) == Len(c) = Len(v1) /\ Len(v1) = Len(v2)

\* lines 665-666
DbCheckLengths ==
  /\ fn \in {"dumbbell", "line_range"} /\ pc = "db_lengths"
  /\ IF ~SameLength(frame.categories, frame.values1, frame.values2)
     THEN pc' = "raised" /\ err' = Raise("ValueError", 666)
     ELSE pc' = "db_figure" /\ UNCHANGED err
  /\ UNCHANGED <<sched, args, frame, category_col, value_col, data, local_colors, total,
                 number_of_values, cat, width, height, padding_length, b, ranges,
                 colorscale, fig>>

\* go.Scatter(x=, y=, mode=, line=/marker=dict(color=, width=/size=), name=, showlegend=)
Scatter(x, y, mode, color, size, name, showlegend) ==
  [x |-> x, y |-> y, mode |-> mode, color |-> color, size |-> size,
   name |-> name, showlegend |-> showlegend]

\* str(val) of the annotation text
Str(v) == <<"str", v>>

\* lines 675-677: the line joining the two points of category k
\* Mutant: the line ends where it starts, at the values1 point.
LineTraceToSelf(fr, k) ==
  LET p == fr.call
      vals == <<fr.values1[k], fr.values1[k]>>
      cats == <<fr.categories[k], fr.categories[k]>>
  IN IF p.orientation = "h"
     THEN Scatter(vals, cats, "lines", p.line_color, p.line_width, None, FALSE)
     ELSE Scatter(cats, vals, "lines", p.line_color, p.line_width, None, FALSE)

LineTrace(fr, k) ==
  LET p == fr.call
      vals == <<fr.values1[k], fr.values2[k]>>
      cats == <<fr.categories[k], fr.categories[k]>>
  IN IF p.orientation = "h"
     THEN Scatter(vals, cats, "lines", p.line_color, p.line_width, None, FALSE)
     ELSE Scatter(cats, vals, "lines", p.line_color, p.line_width, None, FALSE)

\* A legend as soon as one of the two labels is given.
ShowLegendEither(p) == TruthyStr(p.label1) \/ TruthyStr(p.label2)

\* line 669
ShowLegend(p) == TruthyStr(p.label1) /\ TruthyStr(p.label2)

\* lines 672-673, 679-680: the markers of one of the two value lists
MarkerTrace(fr, values, color, name) ==
  LET p == fr.call
  IN IF p.orientation = "h"
     THEN Scatter(values, fr.categories, "markers", color, p.marker_size, name, ShowLegend(p))
     ELSE Scatter(fr.categories, values, "markers", color, p.marker_size, name, ShowLegend(p))

\* The labels with a tie treated as values1 being the smaller value.
AnnotationTieLow(fr, k, first) ==
  LET p == fr.call
      val1 == fr.values1[k]
      val2 == fr.values2[k]
      val == IF first THEN val1 ELSE val2
      low == IF first THEN val1 <= val2 ELSE ~(val1 <= val2)
      color == IF first THEN p.marker_color1 ELSE p.marker_color2
  IN IF p.orientation = "h"
     THEN [x |-> val, y |-> fr.categories[k], text |-> Str(val), color |-> color,
           xanchor |-> IF low THEN "right" ELSE "left", yanchor |-> "middle",
           xshift |-> IF low THEN -5 ELSE 5, yshift |-> 0]
     ELSE [x |-> fr.categories[k], y |-> val, text |-> Str(val), color |-> color,
           xanchor |-> "center", yanchor |-> IF low THEN "top" ELSE "bottom",
           xshift |-> 0, yshift |-> IF low THEN -5 ELSE 5]

\* lines 682-704: the label of one point; first says it is the values1 point.  The label
\* of the smaller value sits on the low side (shift -5), the other on the high side.
Annotation(fr, k, first) ==
  LET p == fr.call
      val1 == fr.values1[k]
      val2 == fr.values2[k]
      val == IF first THEN val1 ELSE val2
      low == IF first THEN val1 < val2 ELSE ~(val1 < val2)
      color == IF first THEN p.marker_color1 ELSE p.marker_color2
  IN IF p.orientation = "h"
     THEN [x |-> val, y |-> fr.categories[k], text |-> Str(val), color |-> color,
           xanchor |-> IF low THEN "right" ELSE "left", yanchor |-> "middle",
           xshift |-> IF low THEN -5 ELSE 5, yshift |-> 0]
     ELSE [x |-> fr.categories[k], y |-> val, text |-> Str(val), color |-> color,
           xanchor |-> "center", yanchor |-> IF low THEN "top" ELSE "bottom",
           xshift |-> 0, yshift |-> IF low THEN -5 ELSE 5]

\* zip(categories, values1, values2) stops at the shortest list.
ZipLen(fr) ==
  LET Min(x, y) == IF x < y THEN x ELSE y
  IN Min(Len(fr.categories), Min(Len(fr.values1), Len(fr.values2)))

\* lines 668-711: the traces, annotations and layout of the figure
DumbbellFigure(fr) ==
  LET p == fr.call
      n == ZipLen(fr)
  IN [traces |-> [k \in 1..n |-> LineTrace(fr, k)]
                   \o <<MarkerTrace(fr, fr.values1, p.marker_color1, p.label1),
                        MarkerTrace(fr, fr.values2, p.marker_color2, p.label2)>>,
      annotations |-> [j \in 1..(2 * n) |-> Annotation(fr, (j + 1) \div 2, j % 2 = 1)],
      xaxis_title |-> IF p.orientation = "h" THEN "Value" ELSE "Category",
      yaxis_title |-> IF p.orientation = "h" THEN "Category" ELSE "Value"]

\* lines 668-713
DbBuildFigure ==
  /\ fn \in {"dumbbell", "line_range"} /\ pc = "db_figure"
  /\ fig' = Some(DumbbellFigure(frame))
  /\ pc' = "returned"
  /\ UNCHANGED <<sched, args, frame, category_col, value_col, data, local_colors, total,
                 number_of_values, cat, width, height, padding_length, b, ranges,
                 colorscale, err>>

NextRange ==
  \/ LineRangeCall
  \/ DbResolveInput
  \/ DbCheckLengths
  \/ DbBuildFigure

SpecRange == InitRange /\ [][NextRange]_vars

\* ------------------------------------------------------------- lollipop_chart
\* lollipop_chart(categories, values): both required, held by arg_more.
InitLollipop ==
  /\ fn = "lollipop_chart"
  /\ arg_more \in [categories : LabelLists, values : NumberLists]
  /\ arg_df = None /\ arg_category_col = None /\ arg_value_col = None
  /\ arg_data = None /\ arg_local_colors = None /\ arg_grid_width = None
  /\ LocalsInit

\* lines 858-859
LpCheckLengths ==
  /\ fn = "lollipop_chart" /\ pc = "entry"
  /\ IF Len(arg_more.categories) # Len(arg_more.values)
     THEN pc' = "raised" /\ err' = Raise("ValueError", 859)
     ELSE pc' = "lp_figure" /\ UNCHANGED err
  /\ UNCHANGED <<sched, args, frame, category_col, value_col, data, local_colors, total,
                 number_of_values, cat, width, height, padding_length, b, ranges,
                 colorscale, fig>>

\* lines 864-871: the stick of category k, from 0 up to its value
StickTrace(categories, values, k) ==
  Scatter(<<categories[k], categories[k]>>, <<0, values[k]>>, "lines", "gray", 2, None, FALSE)

\* lines 861-888; the layout switches the legend off.
LollipopFigure(categories, values) ==
  [traces |-> [k \in 1..Len(categories) |-> StickTrace(categories, values, k)]
                \o <<Scatter(categories, values, "markers", "blue", 10, Some("Value"), FALSE)>>,
   annotations |-> <<>>,
   xaxis_title |-> "Category", yaxis_title |-> "Value"]

\* lines 861-890
LpBuildFigure ==
  /\ fn = "lollipop_chart" /\ pc = "lp_figure"
  /\ fig' = Some(LollipopFigure(arg_more.categories, arg_more.values))
  /\ pc' = "returned"
  /\ UNCHANGED <<sched, args, frame, category_col, value_col, data, local_colors, total,
                 number_of_values, cat, width, height, padding_length, b, ranges,
                 colorscale, err>>

NextLollipop ==
  \/ LpCheckLengths
  \/ LpBuildFigure

\* ------------------------------------------------------------- any chart builder
InitCharts == Init \/ InitWaterfall \/ InitRange \/ InitLollipop

NextCharts ==
  \/ Next
  \/ NextWaterfall
  \/ NextRange
  \/ NextLollipop

SpecCharts == InitCharts /\ [][NextCharts]_vars

\* ------------------------------------------------------------- two concurrent calls
\* A call's parameters and locals: what a call owns, and all the state the builders use.
Saved ==
  [fn |-> fn, arg_more |-> arg_more, arg_df |-> arg_df,
   arg_category_col |-> arg_category_col, arg_value_col |-> arg_value_col,
   arg_data |-> arg_data, arg_local_colors |-> arg_local_colors,
   arg_grid_width |-> arg_grid_width, category_col |-> category_col,
   value_col |-> value_col, data |-> data, local_colors |-> local_colors,
   total |-> total, number_of_values |-> number_of_values, cat |-> cat,
   width |-> width, height |-> height, padding_length |-> padding_length, b |-> b,
   ranges |-> ranges, colorscale |-> colorscale, fig |-> fig, pc |-> pc, err |-> err,
   frame |-> frame]

\* A call with arguments a (in the order of args) on entry.
Entered(a) ==
  [fn |-> a[1], arg_more |-> a[2], arg_df |-> a[3], arg_category_col |-> a[4],
   arg_value_col |-> a[5], arg_data |-> a[6], arg_local_colors |-> a[7],
   arg_grid_width |-> a[8],
   category_col |-> "", value_col |-> "", data |-> <<>>, local_colors |-> <<>>,
   total |-> 0, number_of_values |-> 0, cat |-> <<>>, width |-> 0, height |-> 0,
   padding_length |-> 0, b |-> <<>>, ranges |-> <<>>, colorscale |-> <<>>, fig |-> None,
   pc |-> "entry", err |-> NoError, frame |-> <<>>]

\* The call f goes on from where it was.
Resume(f) ==
  /\ fn' = f.fn /\ arg_more' = f.arg_more /\ arg_df' = f.arg_df
  /\ arg_category_col' = f.arg_category_col /\ arg_value_col' = f.arg_value_col
  /\ arg_data' = f.arg_data /\ arg_local_colors' = f.arg_local_colors
  /\ arg_grid_width' = f.arg_grid_width /\ category_col' = f.category_col
  /\ value_col' = f.value_col /\ data' = f.data /\ local_colors' = f.local_colors
  /\ total' = f.total /\ number_of_values' = f.number_of_values /\ cat' = f.cat
  /\ width' = f.width /\ height' = f.height /\ padding_length' = f.padding_length
  /\ b' = f.b /\ ranges' = f.ranges /\ colorscale' = f.colorscale /\ fig' = f.fig
  /\ pc' = f.pc /\ err' = f.err /\ frame' = f.frame

\* The calls two callers make at the same time: a few of each builder, some that fail.
WaffleCalls ==
  {<<"waffle", <<>>, None, None, None, d, c, w>>
     : d \in {None} \cup {Some(x) : x \in ExampleDicts},
       c \in {None, Some(ColourList(1))}, w \in {None, Some(MaxWidth)}}
WaterfallCalls ==
  {<<"waterfall",
     [labels |-> Some(LabelList(n)), measure |-> m, annotation |-> None, color |-> None],
     None, None, None, Some(Repeat(MaxCount, n)), None, None>>
     : n \in 1..MaxRows, m \in {None, Some(MeasureList(MaxRows))}}
RangeCalls ==
  {<<f, WithFields(RangeArgs(None, Some(LabelList(n)), Some(Repeat(1, n)),
                             Some(Repeat(MaxCount, m)), <<Some("2022"), Some("2023")>>, "h"),
                   IF f = "dumbbell" THEN DumbbellStyle ELSE LineRangeStyle),
     None, None, None, None, None, None>>
     : f \in {"dumbbell", "line_range"}, n \in 1..MaxRows, m \in 1..MaxRows}
LollipopCalls ==
  {<<"lollipop_chart", [categories |-> LabelList(n), values |-> Repeat(1, m)],
     None, None, None, None, None, None>>
     : n \in 1..MaxRows, m \in 1..MaxRows}
ConcurrentCalls == WaffleCalls \cup WaterfallCalls \cup RangeCalls \cup LollipopCalls

\* The first caller's call, which first runs by itself.
InitConcurrent ==
  /\ \E a \in ConcurrentCalls :
       /\ fn = a[1] /\ arg_more = a[2] /\ arg_df = a[3] /\ arg_category_col = a[4]
       /\ arg_value_col = a[5] /\ arg_data = a[6] /\ arg_local_colors = a[7]
       /\ arg_grid_width = a[8]
  /\ LocalsInit

\* The first call has run by itself; its caller makes it again while a second caller
\* makes a call of its own.
StartConcurrent ==
  /\ alone = None /\ pc \in {"returned", "raised"}
  /\ alone' = Some([fig |-> fig, err |-> err])
  /\ \E a \in ConcurrentCalls : other' = Some(Entered(a))
  /\ Resume(Entered(args))
  /\ turn' = 1

\* The interpreter leaves the running call where it is and lets the other one run.
\* Mutant: local_colors is kept in one place for both calls, as a module-level variable
\* would be.
SwitchSharingColors ==
  /\ other # None
  /\ other' = Some(Saved)
  /\ Resume([other[1] EXCEPT !.local_colors = local_colors])
  /\ turn' = 3 - turn
  /\ UNCHANGED alone

Switch ==
  /\ other # None
  /\ other' = Some(Saved)
  /\ Resume(other[1])
  /\ turn' = 3 - turn
  /\ UNCHANGED alone

NextConcurrent ==
  \/ NextCharts
  \/ StartConcurrent
  \/ Switch

SpecConcurrent == InitConcurrent /\ [][NextConcurrent]_vars

\* ------------------------------------------------------------- the earlier definition of dumbbell
\* The module defines dumbbell() twice; fn = "dumbbell_first" is a call of the definition
\* of lines 269-336, which the one of lines 606-713 replaces when the module is loaded.

\* lines 311-326: as lines 648-663
DbFirstResolveInput ==
  /\ fn = "dumbbell_first" /\ pc = "entry"
  /\ LET p == arg_more
         quit(e) == /\ pc' = "raised" /\ err' = e
                    /\ UNCHANGED <<category_col, value_col, frame>>
     IN IF arg_df # None
        THEN LET df == arg_df[1]
                 c0 == ColumnOrDefault(arg_category_col, df, 0)
                 c1 == ColumnOrDefault(arg_value_col, df, 1)
                 c2 == ColumnOrDefault(p.value2_col, df, 2)
             IN IF TruthyStr(arg_category_col) /\ ~InColumns(df, arg_category_col[1])
                THEN quit(RaiseColumn(313, arg_category_col[1]))
                ELSE IF TruthyStr(arg_value_col) /\ ~InColumns(df, arg_value_col[1])
                THEN quit(RaiseColumn(315, arg_value_col[1]))
                ELSE IF TruthyStr(p.value2_col) /\ ~InColumns(df, p.value2_col[1])
                THEN quit(RaiseColumn(317, p.value2_col[1]))
                ELSE IF c0 = None THEN quit(Raise("IndexError", 319))
                ELSE IF c1 = None THEN quit(Raise("IndexError", 320))
                ELSE IF c2 = None THEN quit(Raise("IndexError", 321))
                ELSE /\ category_col' = c0[1] /\ value_col' = c1[1]
                     /\ frame' = [call |-> p, value2_col |-> c2[1],
                                  categories |-> Column(df, c0[1]),
                                  values1 |-> Column(df, c1[1]),
                                  values2 |-> Column(df, c2[1])]
                     /\ pc' = "db_lengths" /\ UNCHANGED err
        ELSE IF ~(TruthyList(p.categories) /\ TruthyList(p.values1) /\ TruthyList(p.values2))
             THEN quit(Raise("ValueError", 326))
             ELSE /\ frame' = [call |-> p, value2_col |-> "",
                               categories |-> p.categories[1],
                               values1 |-> p.values1[1],
                               values2 |-> p.values2[1]]
                  /\ pc' = "db_lengths" /\ UNCHANGED <<category_col, value_col, err>>
  /\ UNCHANGED <<sched, args, data, local_colors, total, number_of_values, cat, width, height,
                 padding_length, b, ranges, colorscale, fig>>

\* lines 328-329
DbFirstCheckLengths ==
  /\ fn = "dumbbell_first" /\ pc = "db_lengths"
  /\ IF ~SameLength(frame.categories, frame.values1, frame.values2)
     THEN pc' = "raised" /\ err' = Raise("ValueError", 329)
     ELSE pc' = "db_figure" /\ UNCHANGED err
  /\ UNCHANGED <<sched, args, frame, category_col, value_col, data, local_colors, total,
                 number_of_values, cat, width, height, padding_length, b, ranges,
                 colorscale, fig>>

\* lines 331-336: an empty figure, showlegend and the marker coordinates are computed and
\* the body ends there; the call returns None.
DbFirstEnd ==
  /\ fn = "dumbbell_first" /\ pc = "db_figure"
  /\ fig' = None
  /\ pc' = "returned"
  /\ UNCHANGED <<sched, args, frame, category_col, value_col, data, local_colors, total,
                 number_of_values, cat, width, height, padding_length, b, ranges,
                 colorscale, err>>

\* Calls of dumbbell(), as the module defines it.
InitDefinitions == InitRange /\ fn = "dumbbell"

\* The call has ended; it is made again, of the earlier definition, and alone keeps what
\* it gave.
CallFirstDefinition ==
  /\ fn = "dumbbell" /\ alone = None /\ pc \in {"returned", "raised"}
  /\ alone' = Some([fig |-> fig, err |-> err])
  /\ Resume([Entered(args) EXCEPT !.fn = "dumbbell_first"])
  /\ UNCHANGED <<other, turn>>

NextDefinitions ==
  \/ DbResolveInput
  \/ DbCheckLengths
  \/ DbBuildFigure
  \/ CallFirstDefinition
  \/ DbFirstResolveInput
  \/ DbFirstCheckLengths
  \/ DbFirstEnd

SpecDefinitions == InitDefinitions /\ [][NextDefinitions]_vars

\* ------------------------------------------------------------- vocabulary of the properties
Finished == pc \in {"returned", "raised"}

\* The call got past lines 549-559, so data holds the category counts.
EntryLines == {551, 553, 559}
CountsResolved == pc # "entry" /\ ~(pc = "raised" /\ err.line \in EntryLines)

Counts == Values(data)
N == Len(data)
T == SumSeq(Counts)

\* The grid handed to go.Heatmap.
Z == fig[1].z
Cells(m) == UNION {{<<r, c>> : c \in 1..Len(m[r])} : r \in 1..Len(m)}
CellsWith(m, v) == {rc \in Cells(m) : m[rc[1]][rc[2]] = v}
Populated(m) == {rc \in Cells(m) : m[rc[1]][rc[2]] # nan}

\* ceil(a / w) for a >= 0, w > 0, by its defining inequalities.
CeilOf(a, w) == CHOOSE h \in 0..a : h * w >= a /\ (h = 0 \/ (h - 1) * w < a)

\* C1: for counts with total T > 0 and a positive chosen width w, the grid
\* handed to the renderer has exactly ceil(T/w) * w cells, exactly T of them
\* carry a category index and the other ceil(T/w) * w - T are padding.
C1_GridCellCount ==
  (pc = "returned" /\ T > 0 /\ width > 0) =>
    /\ \A r \in 1..Len(Z) : Len(Z[r]) = width
    /\ Cardinality(Cells(Z)) = CeilOf(T, width) * width
    /\ Cardinality(Populated(Z)) = T
    /\ Cardinality(CellsWith(Z, nan)) = CeilOf(T, width) * width - T

\* Five tiles on a grid three wide: two rows, one padding cell.
C1_Witness ==
  /\ pc = "returned" /\ T = 5 /\ width = 3
  /\ Len(Z) = 2 /\ Cardinality(CellsWith(Z, nan)) = 1

\* C2: category k (insertion order, index k from 0) owns exactly counts[k]
\* cells of the grid, and every populated cell holds an index in 0..n-1.
C2_CellsPerCategory ==
  pc = "returned" =>
    /\ \A k \in 1..N : Cardinality(CellsWith(Z, k - 1)) = Counts[k]
    /\ \A rc \in Populated(Z) : Z[rc[1]][rc[2]] \in 0..(N - 1)

\* Three categories with different counts, one of them empty.
C2_Witness ==
  /\ pc = "returned" /\ N = 3
  /\ Counts = <<2, 0, 1>>
  /\ Cardinality(CellsWith(Z, 0)) = 2 /\ Cardinality(CellsWith(Z, 2)) = 1

\* The input-validation error: the module raises ValueError for every input
\* it rejects; ZeroDivisionError is an arithmetic fault.
InvalidInputError(e) == e.type = "ValueError"

WidthOmittedOrPositive == arg_grid_width = None \/ arg_grid_width[1] > 0

\* C3: with an empty counts mapping, or counts whose total is zero, waffle
\* fails with the input-validation error (not an arithmetic fault) and returns
\* no figure, whatever grid width and colour list are supplied.
C3_EmptyOrZeroTotalRejected ==
  (Finished /\ CountsResolved /\ T = 0) =>
    (pc = "raised" /\ InvalidInputError(err) /\ fig = None)

\* C4: with grid_width supplied as a value <= 0, waffle fails with the
\* input-validation error; it neither falls back to the default width nor
\* builds a grid.
C4_NonPositiveWidthRejected ==
  (Finished /\ CountsResolved /\ arg_grid_width # None /\ arg_grid_width[1] <= 0) =>
    (pc = "raised" /\ InvalidInputError(err) /\ fig = None)

\* C5: with no colour list supplied, waffle derives a gradient of exactly n
\* colours for every n >= 1 and returns a layout; {X: 5} with grid width 3
\* gives width 3, height 2, 6 cells, 1 padding cell and 5 cells of X.
C5_GradientForEveryN ==
  (Finished /\ CountsResolved /\ arg_local_colors = None
     /\ N >= 1 /\ T > 0 /\ WidthOmittedOrPositive) =>
    /\ pc = "returned"
    /\ Len(local_colors) = N
    /\ (data = <<[key |-> "X", value |-> 5]>> /\ arg_grid_width = Some(3)) =>
         /\ width = 3 /\ height = 2
         /\ Cardinality(Cells(Z)) = 6
         /\ Cardinality(CellsWith(Z, nan)) = 1
         /\ Cardinality(CellsWith(Z, 0)) = 5

\* The colour scale handed to go.Heatmap, and the colour of band i (from 0).
Scale == fig[1].colorscale
ScaleColorOfBand(i) == Scale[2 * i + 1][2]

\* Band i (from 0) is drawn in the caller's colour at index i modulo the
\* length of the caller's list.
CyclicColors ==
  LET given == arg_local_colors[1]
  IN \A i \in 0..(N - 1) :
       /\ Scale[2 * i + 1][2] = given[(i % Len(given)) + 1]
       /\ Scale[2 * i + 2][2] = given[(i % Len(given)) + 1]

\* A longer list contributes only its first n colours.
OnlyFirstNUsed ==
  LET given == arg_local_colors[1]
  IN Len(given) > N =>
       {Scale[k][2] : k \in 1..Len(Scale)} = {given[k] : k \in 1..N}

AcceptableCounts == N >= 1 /\ T > 0 /\ WidthOmittedOrPositive

C7_BreakpointCountAndOrder ==
  (pc = "returned" /\ N >= 1) =>
    /\ Len(Scale) = 2 * N
    /\ \A k \in 1..(Len(Scale) - 1) : RatLe(Scale[k][1], Scale[k + 1][1])

\* Three bands, six breakpoints; the scale climbs from the first to the last.
C7_Witness ==
  /\ pc = "returned" /\ N = 3 /\ Len(Scale) = 6
  /\ RatLt(Scale[1][1], Scale[6][1])

\* The tick positions on the colour bar.
Ticks == fig[1].tickvals
TicksIncreasing == \A i \in 1..(Len(Ticks) - 1) : RatLt(Ticks[i], Ticks[i + 1])

\* C8 as claimed: the n tick positions are strictly increasing and every one
\* lies strictly inside (0, 1).
C8_TicksInsideUnitInterval ==
  (pc = "returned" /\ N >= 1) =>
    /\ Len(Ticks) = N
    /\ TicksIncreasing
    /\ \A i \in 1..Len(Ticks) : RatLt(<<0, 1>>, Ticks[i]) /\ RatLt(Ticks[i], <<1, 1>>)

\* C8 (amended): the n tick positions are strictly increasing and every one
\* lies inside [0, n-1], the range of the cell values: strictly inside
\* (0, n-1) when n >= 2, and at 0 when n = 1.
C8_TicksInsideIndexRange ==
  (pc = "returned" /\ N >= 1) =>
    /\ Len(Ticks) = N
    /\ TicksIncreasing
    /\ \A i \in 1..Len(Ticks) :
         IF N = 1 THEN RatEq(Ticks[i], <<0, 1>>)
         ELSE RatLt(<<0, 1>>, Ticks[i]) /\ RatLt(Ticks[i], <<N - 1, 1>>)

\* Three categories: the ticks are 1/3, 1 and 5/3, the last two outside (0, 1).
C8_Witness ==
  /\ pc = "returned" /\ N = 3
  /\ RatEq(Ticks[1], <<1, 3>>) /\ RatEq(Ticks[2], <<1, 1>>) /\ RatEq(Ticks[3], <<5, 3>>)

RunningTotal(k) == SumSeq(SubSeq(Counts, 1, k))
TileIndex(j) == (CHOOSE k \in 1..N : RunningTotal(k) >= j /\ RunningTotal(k - 1) < j) - 1

\* flat: the padding markers, then the category indices in insertion order
\* (position p from 0).
FlatAt(p) ==
  LET pad == width * height - T
  IN IF p < pad THEN nan ELSE TileIndex(p - pad + 1)

\* C10: the cell at row r, column c of the grid given to the renderer is
\* flat[r * width + (width - 1 - c)], for 0 <= r < height and 0 <= c < width.
C10_PadThenFlip ==
  (pc = "returned" /\ width > 0) =>
    /\ Len(Z) = height
    /\ \A r \in 0..(height - 1) :
         /\ Len(Z[r + 1]) = width
         /\ \A c \in 0..(width - 1) :
              Z[r + 1][c + 1] = FlatAt(r * width + (width - 1 - c))

\* Two rows of three with one padding cell: after the flip the padding sits in
\* the last column of row 0 and the first tile next to it.
C10_Witness ==
  /\ pc = "returned" /\ width = 3 /\ height = 2 /\ T = 5 /\ N >= 2
  /\ Z[1][3] = nan /\ Z[1][2] = 0 /\ Z[2][1] = N - 1


\* The least w with w * w >= t: ceil(sqrt(t)).
RootCeiling(t) == CHOOSE w \in 0..t : w * w >= t /\ \A v \in 0..(w - 1) : v * v < t

\* C11: with grid_width omitted the width is ceil(sqrt(total)); in every case
\* height = ceil(total / width) and width * height >= total.
C11_DefaultWidthAndHeight ==
  pc = "returned" =>
    /\ arg_grid_width = None => width = RootCeiling(T)
    /\ height = CeilOf(T, width)
    /\ width * height >= T
    /\ Len(Z) = height

\* Five tiles and no width: a grid three wide and two high.
C11_Witness ==
  /\ pc = "returned" /\ arg_grid_width = None /\ T = 5
  /\ width = 3 /\ height = 2


\* ------------------------------------------------------------- waterfall: properties
\* C12: with measure omitted and n >= 1 categories the chart's measure is n - 1 entries
\* 'relative' followed by one 'total', n entries in all; a supplied measure is passed
\* to the chart unchanged.
C12_DefaultMeasure ==
  (fn = "waterfall" /\ pc = "returned") =>
    LET n == Len(fig[1].x)
        m == fig[1].measure
    IN /\ (arg_more.measure = None /\ n >= 1) =>
            /\ Len(m) = n
            /\ \A k \in 1..(n - 1) : m[k] = "relative"
            /\ m[n] = "total"
       /\ arg_more.measure # None => m = arg_more.measure[1]

C12_Witness ==
  /\ fn = "waterfall" /\ pc = "returned" /\ arg_more.measure = None
  /\ Len(fig[1].x) = 2 /\ fig[1].measure = <<"relative", "total">>


\* ------------------------------------------------------------- dumbbell, line_range: properties
RangeReturned == fn \in {"dumbbell", "line_range"} /\ pc = "returned"

\* The three sequences of the call: the caller's lists, or the table's columns.
InCategories ==
  IF arg_df = None THEN arg_more.categories[1] ELSE Column(arg_df[1], category_col)
InValues1 ==
  IF arg_df = None THEN arg_more.values1[1] ELSE Column(arg_df[1], value_col)
InValues2 ==
  IF arg_df = None THEN arg_more.values2[1] ELSE Column(arg_df[1], frame.value2_col)

\* A trace read along the value axis (along) and the category axis (across).
Along(t) == IF arg_more.orientation = "h" THEN t.x ELSE t.y
Across(t) == IF arg_more.orientation = "h" THEN t.y ELSE t.x

\* C13: for sequences of equal length, category i has its two points at values1[i] and
\* values2[i] on the value axis, both on the row of categories[i], joined by one line
\* segment, rows in category order; the value axis is x for orientation 'h' and y for 'v'.
C13_PointsAndSegments ==
  RangeReturned =>
    LET n == Len(InCategories)
        t == fig[1].traces
    IN /\ Len(InValues1) = n /\ Len(InValues2) = n
       /\ Len(t) = n + 2
       /\ \A i \in 1..n :
            /\ t[i].mode = "lines"
            /\ Along(t[i]) = <<InValues1[i], InValues2[i]>>
            /\ Across(t[i]) = <<InCategories[i], InCategories[i]>>
       /\ t[n + 1].mode = "markers" /\ t[n + 2].mode = "markers"
       /\ Along(t[n + 1]) = InValues1 /\ Across(t[n + 1]) = InCategories
       /\ Along(t[n + 2]) = InValues2 /\ Across(t[n + 2]) = InCategories

C13_Witness ==
  /\ RangeReturned /\ fn = "line_range" /\ arg_more.orientation = "v"
  /\ InCategories = <<Label(1), Label(2)>>
  /\ InValues1 = <<1, 2>> /\ InValues2 = <<2, 1>>
  /\ fig[1].traces[2].y = <<2, 1>>


\* ------------------------------------------------------------- the errors of the taxonomy
\* The four kinds are all ValueError in the code; the line of the raise tells them apart.
MissingInputLines == {489, 559, 663}
ColumnNotFoundLines == {480, 482, 551, 553, 650, 652, 654}
LengthMismatchLines == {666, 859}
MissingInputError(e) == e.type = "ValueError" /\ e.line \in MissingInputLines
ColumnNotFoundError(e) == e.type = "ValueError" /\ e.line \in ColumnNotFoundLines
LengthMismatchError(e) == e.type = "ValueError" /\ e.line \in LengthMismatchLines

\* The call is one of the builders that compare the lengths of their sequences.
RangeOrLollipop == fn \in {"dumbbell", "line_range", "lollipop_chart"}

\* The caller passed every one of the parallel sequences as a list.
SequencesSupplied ==
  \/ fn = "lollipop_chart"
  \/ /\ fn \in {"dumbbell", "line_range"} /\ arg_df = None
     /\ arg_more.categories # None /\ arg_more.values1 # None /\ arg_more.values2 # None

SuppliedLengths ==
  IF fn = "lollipop_chart"
  THEN {Len(arg_more.categories), Len(arg_more.values)}
  ELSE {Len(arg_more.categories[1]), Len(arg_more.values1[1]), Len(arg_more.values2[1])}

\* C14: dumbbell, line_range and lollipop_chart raise the length-mismatch error exactly
\* when the sequences they were given do not all have the same length, and then return
\* no figure.
C14_MismatchRaisedIffUnequal ==
  (RangeOrLollipop /\ Finished /\ SequencesSupplied) =>
    /\ LengthMismatchError(err) <=> Cardinality(SuppliedLengths) > 1
    /\ Cardinality(SuppliedLengths) > 1 => fig = None


\* The caller of waterfall() passed labels and data as lists of different lengths.
WaterfallListsDiffer ==
  /\ fn = "waterfall" /\ arg_df = None
  /\ arg_more.labels # None /\ arg_data # None
  /\ Len(arg_more.labels[1]) # Len(arg_data[1])

\* C15: when labels and data differ in length, waterfall fails with the length-mismatch
\* error and builds no chart.
C15_WaterfallChecksLengths ==
  (WaterfallListsDiffer /\ Finished) => (LengthMismatchError(err) /\ fig = None)


\* The call is driven from a table by a builder that accepts one.
TableDriven == fn \in {"waffle", "waterfall", "dumbbell", "line_range"} /\ arg_df # None

\* The column names the caller passed: category, value (or value1) and value2.
NamedColumns ==
  {c[1] : c \in {c \in {arg_category_col, arg_value_col} : c # None}}
    \cup (IF fn \in {"dumbbell", "line_range"} /\ arg_more.value2_col # None
          THEN {arg_more.value2_col[1]} ELSE {})

\* Those of them the table does not have.
AbsentColumns ==
  {c \in NamedColumns : \A k \in 1..Len(arg_df[1].columns) : arg_df[1].columns[k] # c}

\* C16: a table-driven call that names a column the table does not have builds no chart
\* and fails with the column-not-found error, which names a missing column.
C16_AbsentColumnRejected ==
  (TableDriven /\ AbsentColumns # {}) =>
    /\ fig = None
    /\ Finished => (pc = "raised" /\ ColumnNotFoundError(err) /\ err.column \in AbsentColumns)

C16_Witness ==
  /\ fn = "line_range" /\ pc = "raised" /\ arg_df # None
  /\ arg_category_col = Some("Product") /\ arg_value_col = None
  /\ AbsentColumns = {"Other"}
  /\ err.line = 654 /\ err.column = "Other"


\* The explicit input of a builder that also accepts a table: the counts mapping of
\* waffle, labels and data of waterfall, the three lists of dumbbell and line_range.
ExplicitInputs ==
  IF fn = "waffle" THEN {arg_data}
  ELSE IF fn = "waterfall" THEN {arg_more.labels, arg_data}
  ELSE {arg_more.categories, arg_more.values1, arg_more.values2}

\* C17: without a table, a call whose explicit input is not supplied fails with the
\* missing-input error and returns no figure; a call whose explicit input is supplied
\* in full does not fail with the missing-input error.
C17_MissingInputIffNotSupplied ==
  (fn \in {"waffle", "waterfall", "dumbbell", "line_range"} /\ arg_df = None /\ Finished) =>
    IF None \in ExplicitInputs
    THEN MissingInputError(err) /\ fig = None
    ELSE ~MissingInputError(err)


\* The lines of a builder's entry validation: everything before its first layout step
\* (561 in waffle, 491 in waterfall, 668 in dumbbell, 861 in lollipop_chart).
EntryValidationLines(f) ==
  CASE f = "waffle" -> 549..559
    [] f = "waterfall" -> 478..489
    [] f \in {"dumbbell", "line_range"} -> 648..666
    [] f = "lollipop_chart" -> 858..859

\* C18: every error a chart builder raises is raised by its entry validation, before
\* any layout step has run.
C18_ErrorsOnlyAtEntry ==
  pc = "raised" => err.line \in EntryValidationLines(fn)


\* C19: no step of any chart builder changes what the caller passed: the counts mapping,
\* the colour list, the label, value, measure and annotation sequences and the table are
\* after the call what they were before it.
C19_InputsNotMutated == [][args' = args]_vars

C19_Witness ==
  /\ fn = "waterfall" /\ pc = "returned"
  /\ arg_more.labels = Some(<<Label(1), Label(2)>>) /\ arg_data = Some(<<1, 2>>)
  /\ arg_more.measure = Some(MeasureList(2))
  /\ fig[1].measure = MeasureList(2)


\* ------------------------------------------------------------- concurrent calls: properties
FirstCall == IF turn = 1 THEN Saved ELSE other[1]
SecondCall == IF turn = 1 THEN other[1] ELSE Saved
Done(f) == f.pc \in {"returned", "raised"}
Result(f) == [fig |-> f.fig, err |-> f.err]
SameInputs(f, g) ==
  /\ f.fn = g.fn /\ f.arg_more = g.arg_more /\ f.arg_df = g.arg_df
  /\ f.arg_category_col = g.arg_category_col /\ f.arg_value_col = g.arg_value_col
  /\ f.arg_data = g.arg_data /\ f.arg_local_colors = g.arg_local_colors
  /\ f.arg_grid_width = g.arg_grid_width

TableColumn(col, k) ==
  arg_df[1].cols[IF col # None /\ col[1] # "" THEN col[1] ELSE arg_df[1].columns[k]]

\* The caller passed an explicit input together with the table.
ExplicitWithTable ==
  /\ TableDriven
  /\ \/ arg_data # None
     \/ fn = "waterfall" /\ arg_more.labels # None
     \/ /\ fn \in {"dumbbell", "line_range"}
        /\ {arg_more.categories, arg_more.values1, arg_more.values2} # {None}

\* C21: a call given a table takes its input from the table's columns only, whatever
\* explicit inputs are passed with it: waffle its counts mapping, waterfall labels and
\* data, dumbbell and line_range categories, values1 and values2.
C21_TableOverridesExplicit ==
  TableDriven =>
    /\ (fn = "waffle" /\ CountsResolved) =>
         data = DictZip(TableColumn(arg_category_col, 1), TableColumn(arg_value_col, 2))
    /\ (fn = "waterfall" /\ pc = "returned") =>
         /\ fig[1].x = TableColumn(arg_category_col, 1)
         /\ fig[1].y = TableColumn(arg_value_col, 2)
    /\ (fn \in {"dumbbell", "line_range"} /\ pc = "returned") =>
         LET t == fig[1].traces
             n == Len(t) - 2
         IN /\ Across(t[n + 1]) = TableColumn(arg_category_col, 1)
            /\ Along(t[n + 1]) = TableColumn(arg_value_col, 2)
            /\ Across(t[n + 2]) = TableColumn(arg_category_col, 1)
            /\ Along(t[n + 2]) = TableColumn(arg_more.value2_col, 3)

C21_Witness ==
  /\ ExplicitWithTable /\ fn = "dumbbell" /\ pc = "returned"
  /\ arg_more.categories = Some(<<Label(2)>>) /\ arg_more.values2 = Some(<<>>)
  /\ arg_more.values1 # None /\ arg_more.orientation = "h"
  /\ fig[1].traces[3].y = <<Label(1), Label(2)>>
  /\ fig[1].traces[4].x = <<MaxCount, MaxCount>>


\* ------------------------------------------------------------- the two definitions of a name
\* The statement of the later definition that the statement at line l of the earlier
\* definition of dumbbell is a copy of.
LaterLine(l) == l + 337

\* C22: a function the module defines twice behaves the same under both definitions: for
\* every input the earlier and the later definition return equal results or raise the
\* same error.
C22_DefinitionsAgree ==
  (fn = "dumbbell_first" /\ Finished) =>
    /\ fig = alone[1].fig
    /\ err.type = alone[1].err.type /\ err.column = alone[1].err.column
    /\ err.type # "none" => LaterLine(err.line) = alone[1].err.line


\* ------------------------------------------------------------- waffle: shape of the grid
\* C23: with total T > 0 and a positive width w the padding is at least 0 and less than
\* w; in the grid given to the renderer the padding cells are exactly the rightmost
\* `padding` cells of row 0, and every other row is fully populated.
C23_PaddingInRowZero ==
  (fn = "waffle" /\ pc = "returned" /\ T > 0 /\ width > 0) =>
    LET padding == width * height - T
    IN /\ padding_length = padding
       /\ 0 <= padding /\ padding < width
       /\ \A rc \in Cells(Z) :
            Z[rc[1]][rc[2]] = nan <=> (rc[1] = 1 /\ rc[2] > width - padding)

C23_Witness ==
  /\ fn = "waffle" /\ pc = "returned" /\ T = 4 /\ width = 3 /\ height = 2
  /\ padding_length = 2
  /\ Z[1] = <<0, nan, nan>> /\ nan \notin {Z[2][c] : c \in 1..3}


\* The dimensions of the grid have been computed (lines 568-569 are done).
DimensionsChosen == fn = "waffle" /\ pc \in {"pad", "colorscale", "figure", "returned"}

\* C24: with grid_width omitted and total T >= 1 the default grid is square or one row
\* short of square: width = ceil(sqrt(T)) and width - 1 <= height <= width.
C24_DefaultGridNearSquare ==
  (DimensionsChosen /\ arg_grid_width = None /\ T >= 1) =>
    /\ width = RootCeiling(T)
    /\ height = CeilOf(T, width)
    /\ width - 1 <= height /\ height <= width

\* T = 6 gives 3 columns and 2 rows, one row short of square.
C24_Witness ==
  /\ DimensionsChosen /\ arg_grid_width = None /\ T = 6
  /\ width = 3 /\ height = 2


\* ------------------------------------------------------------- waffle: repeated labels
\* The category and value columns of the table waffle is driven from.
TableLabels == TableColumn(arg_category_col, 1)
TableCounts == TableColumn(arg_value_col, 2)

\* The last row of the table that carries label l.
LastRowOf(l) ==
  CHOOSE i \in 1..Len(TableLabels) :
    TableLabels[i] = l /\ \A j \in (i + 1)..Len(TableLabels) : TableLabels[j] # l

\* C25: driven from a table, waffle has one category per distinct label, with the value
\* of the last row carrying that label as its count; the total, the tiles, the colour
\* bands and the tick labels are those of this collapsed mapping.
C25_RepeatedLabelsCollapse ==
  (fn = "waffle" /\ arg_df # None /\ CountsResolved) =>
    /\ {data[k].key : k \in 1..N} = {TableLabels[i] : i \in 1..Len(TableLabels)}
    /\ \A j, k \in 1..N : data[j].key = data[k].key => j = k
    /\ \A k \in 1..N : data[k].value = TableCounts[LastRowOf(data[k].key)]
    /\ DimensionsChosen => (total = T /\ number_of_values = N)
    /\ pc = "returned" =>
         /\ \A k \in 1..N : Cardinality(CellsWith(Z, k - 1)) = data[k].value
         /\ Len(Scale) = 2 * N
         /\ fig[1].ticktext = Keys(data) /\ Len(Ticks) = N

\* Rows (A, 2) and (A, 1): one category A with one tile.
C25_Witness ==
  /\ fn = "waffle" /\ arg_df # None /\ pc = "returned"
  /\ TableLabels = <<Label(1), Label(1)>> /\ TableCounts = <<2, 1>>
  /\ N = 1 /\ total = 1 /\ Cardinality(Populated(Z)) = 1
  /\ fig[1].ticktext = <<Label(1)>>


\* ------------------------------------------------------------- waffle: colour of a cell
\* The renderer scales the cell values to [0, 1] over the values present in the grid.
ZValues == {Z[rc[1]][rc[2]] : rc \in Populated(Z)}
ZMin == CHOOSE v \in ZValues : \A u \in ZValues : v <= u
ZMax == CHOOSE v \in ZValues : \A u \in ZValues : u <= v
Normalised(v) == <<v - ZMin, ZMax - ZMin>>

Inside(p, lo, hi) == RatLe(lo, p) /\ RatLe(p, hi)

\* The colour waffle gives category k (from 0).
CategoryColor(k) == local_colors[(k % Len(local_colors)) + 1]

RatMid(lo, hi) == <<lo[1] * hi[2] + hi[1] * lo[2], 2 * lo[2] * hi[2]>>
RatTimes(p, s) == <<p[1] * s, p[2]>>

\* What is claimed of the ticks of n categories, given the n bands of [0, 1].
TicksAsClaimed(ticks, bands, n) ==
  /\ Len(ticks) = n
  /\ \A i \in 1..n :
       /\ RatEq(ticks[i], <<(2 * i - 1) * (n - 1), 2 * n>>)
       /\ RatEq(ticks[i], RatTimes(RatMid(bands[i][1], bands[i][2]), n - 1))
       /\ Inside(ticks[i], <<0, 1>>, <<n - 1, 1>>)
  /\ n >= 2 => \A i \in 1..(n - 1) : RatLt(ticks[i], ticks[i + 1])

\* C27: the ticks of the colour bar are find_midpoints(n - 1, n): tick i is
\* ((2 * i - 1) * (n - 1)) / (2 * n), the midpoint of band i of [0, 1] scaled by n - 1;
\* all lie in [0, n - 1], there are n of them, one per category label in insertion
\* order, and for n >= 2 they are strictly increasing.
C27_TicksAreScaledMidpoints ==
  (fn = "waffle" /\ pc = "returned" /\ N >= 1) =>
    /\ TicksAsClaimed(Ticks, ranges, N)
    /\ fig[1].ticktext = Keys(data) /\ Len(fig[1].ticktext) = Len(Ticks)

\* Three categories: ticks 1/3, 1 and 5/3 for the labels A, B, C.
C27_Witness ==
  /\ fn = "waffle" /\ pc = "returned" /\ N = 3
  /\ Ticks = <<<<2, 6>>, <<6, 6>>, <<10, 6>>>>
  /\ fig[1].ticktext = <<Label(1), Label(2), Label(3)>>



\* ------------------------------------------------------------- dumbbell: labels and legend
\* The shift of a label along the value axis, and the side its anchor puts the text on.
ShiftOf(a) == IF arg_more.orientation = "h" THEN a.xshift ELSE a.yshift
AnchorOf(a) == IF arg_more.orientation = "h" THEN a.xanchor ELSE a.yanchor
LowSide(a) == ShiftOf(a) = -5 /\ AnchorOf(a) \in {"right", "top"}
HighSide(a) == ShiftOf(a) = 5 /\ AnchorOf(a) \in {"left", "bottom"}

\* C28: a returned dumbbell has exactly two value labels per category, at the two values
\* of the category; when values1[i] < values2[i] the first is on the low side (shift -5)
\* and the second on the high side (shift +5), otherwise (a tie included) the first is on
\* the high side and the second on the low side; the two are never on the same side.
C28_LabelsOnOuterSides ==
  RangeReturned =>
    LET n == Len(InCategories)
        a == fig[1].annotations
    IN /\ Len(a) = 2 * n
       /\ \A i \in 1..n :
            LET first == a[2 * i - 1]
                second == a[2 * i]
            IN /\ Along(first) = InValues1[i] /\ Across(first) = InCategories[i]
               /\ Along(second) = InValues2[i] /\ Across(second) = InCategories[i]
               /\ IF InValues1[i] < InValues2[i]
                  THEN LowSide(first) /\ HighSide(second)
                  ELSE HighSide(first) /\ LowSide(second)
               /\ ShiftOf(first) # ShiftOf(second)

C28_Witness ==
  /\ RangeReturned /\ fn = "dumbbell" /\ arg_more.orientation = "v"
  /\ InValues1 = <<1, 1>> /\ InValues2 = <<1, 2>>
  /\ fig[1].annotations[1].yshift = 5 /\ fig[1].annotations[2].yshift = -5
  /\ fig[1].annotations[3].yshift = -5 /\ fig[1].annotations[4].yshift = 5



\* A label the caller gave and that is not the empty string.
NonEmptyLabel(l) == l \notin {None, Some("")}

====
